---- MODULE Spec2Model ----
(***************************************************************************)
(* Model of webApps/bot/mics.py: the PostgreSQL-backed FSM storage         *)
(* (PostgreSQLKeyBuilder, PostgreSQLStorage) and the registr routine.      *)
(*                                                                         *)
(* Text values whose characters matter (built keys, catalog type names,    *)
(* JSON member names) are sequences of one-character strings.  Values of   *)
(* mixed Python/SQL/JSON type are records tagged by the field t.           *)
(***************************************************************************)
EXTENDS Integers, Sequences, FiniteSets, TLC

VARIABLES
    conn,       \* self.postgresql_connection: 0 is None, else a handle id
    handles,    \* driver side: handle id -> "free" | "open" | "broken" | "closed"
    db,         \* the database: the memory_cache table, its columns and rows
    last,       \* the call that ran last: operation, arguments, outcome, result
    setState,   \* per storage key: label of the last completed set_state
    setData,    \* per storage key: mapping of the last completed set_data
    kb,         \* key builder run: two storage keys and the strings built
    reg,        \* registr run: arguments, collaborator calls and outcome
    workers     \* concurrent workers, one store each: the call each is in

vars == <<conn, handles, db, last, setState, setData, kb, reg, workers>>

-----------------------------------------------------------------------------
(* Bounds *)

MaxId == 12         \* largest chat_id / user_id the key builder is run on

-----------------------------------------------------------------------------
(* Text helpers *)

Digits == <<"0", "1", "2", "3", "4", "5", "6", "7", "8", "9">>

RECURSIVE NatToStr(_)
NatToStr(n) ==
    IF n < 10 THEN <<Digits[n + 1]>>
    ELSE NatToStr(n \div 10) \o <<Digits[(n % 10) + 1]>>

\* str(int) as the f-string renders it
IntToStr(n) == IF n < 0 THEN <<"-">> \o NatToStr(0 - n) ELSE NatToStr(n)

LowerChars == <<"a", "b", "c", "d", "e", "f", "g", "h", "i", "j", "k", "l", "m",
                "n", "o", "p", "q", "r", "s", "t", "u", "v", "w", "x", "y", "z">>
UpperChars == <<"A", "B", "C", "D", "E", "F", "G", "H", "I", "J", "K", "L", "M",
                "N", "O", "P", "Q", "R", "S", "T", "U", "V", "W", "X", "Y", "Z">>

UpperOf == [i \in 1..Len(LowerChars) |-> UpperChars[i]]
LowerIndex == [c \in {LowerChars[i] : i \in 1..Len(LowerChars)} |->
                 CHOOSE i \in 1..Len(LowerChars) : LowerChars[i] = c]

UpperChar(c) == IF c \in DOMAIN LowerIndex THEN UpperOf[LowerIndex[c]] ELSE c

\* str.upper()
Upper(s) == [i \in 1..Len(s) |-> UpperChar(s[i])]

-----------------------------------------------------------------------------
(* PostgreSQLKeyBuilder *)

StorageKey(c, u) == [chat_id |-> c, user_id |-> u]

\* a key builder that drops the separator between the two ids
buildNoSeparator(key) ==
    <<"/">> \o IntToStr(key.chat_id) \o IntToStr(key.user_id) \o <<"/">>

\* f"/{key.chat_id}/{key.user_id}/"
build(key) ==
    <<"/">> \o IntToStr(key.chat_id) \o <<"/">> \o IntToStr(key.user_id) \o <<"/">>

-----------------------------------------------------------------------------
(* Python values *)

NoneV == [t |-> "None"]
PyStr(s) == [t |-> "str", s |-> s]
PyInt(i) == [t |-> "int", i |-> i]
PyList(a) == [t |-> "list", a |-> a]
PyTuple(a) == [t |-> "tuple", a |-> a]
Item(k, v) == [k |-> k, v |-> v]
\* a dict: its items in insertion order, keys pairwise distinct
PyDict(items) == [t |-> "dict", items |-> items]
\* aiogram State object; .state is its label (a str or None)
StateObj(label) == [t |-> "State", state |-> label]
\* the text of a JSON document, as asyncpg hands a json value to Python
JsonText(doc) == [t |-> "jsontext", doc |-> doc]

\* Python truth value, as `if x` / `not x` take it
Truthy(v) ==
    CASE v.t = "None" -> FALSE
      [] v.t = "str" -> Len(v.s) > 0
      [] v.t = "int" -> v.i # 0
      [] v.t = "list" -> Len(v.a) > 0
      [] v.t = "tuple" -> Len(v.a) > 0
      [] v.t = "dict" -> Len(v.items) > 0
      [] OTHER -> TRUE

-----------------------------------------------------------------------------
(* JSON: json.dumps, the ::jsonb cast, json.loads *)

JNumber(i) == [t |-> "number", i |-> i]
JString(s) == [t |-> "string", s |-> s]
JArray(a) == [t |-> "array", a |-> a]
Member(n, v) == [n |-> n, v |-> v]
\* an object: its members in text order; a text may repeat a name
JObject(members) == [t |-> "object", members |-> members]

\* json.dumps of a value inside the mapping: tuples and lists both become
\* arrays (the sequences modelled hold ints)
DumpValue(v) ==
    CASE v.t = "int" -> JNumber(v.i)
      [] v.t = "str" -> JString(v.s)
      [] v.t = "list" -> JArray([i \in 1..Len(v.a) |-> JNumber(v.a[i].i)])
      [] v.t = "tuple" -> JArray([i \in 1..Len(v.a) |-> JNumber(v.a[i].i)])

\* json.dumps of a dict key: a str stays, an int key is written as its numeral
DumpKey(k) == IF k.t = "int" THEN IntToStr(k.i) ELSE k.s

\* self.json_dumps(data)
json_dumps(d) ==
    JObject([i \in 1..Len(d.items) |->
                Member(DumpKey(d.items[i].k), DumpValue(d.items[i].v))])

\* $2::jsonb: of members with one name the last is kept (member order is not
\* observable through dict equality and is left as dumped)
JsonbCast(doc) ==
    LET m == doc.members
        keep == {i \in 1..Len(m) : \A j \in (i + 1)..Len(m) : m[j].n # m[i].n}
        F[i \in 0..Len(m)] ==
            IF i = 0 THEN <<>>
            ELSE IF i \in keep THEN Append(F[i - 1], m[i]) ELSE F[i - 1]
    IN  JObject(F[Len(m)])

LoadValue(j) ==
    CASE j.t = "number" -> PyInt(j.i)
      [] j.t = "string" -> PyStr(j.s)
      [] j.t = "array" -> PyList([i \in 1..Len(j.a) |-> PyInt(j.a[i].i)])

\* self.json_loads(result): every member name comes back as a str
json_loads(text) ==
    LET m == text.doc.members
    IN  PyDict([i \in 1..Len(m) |-> Item(PyStr(m[i].n), LoadValue(m[i].v))])

EmptyDoc == JObject(<<>>)

-----------------------------------------------------------------------------
(* The database as the storage's statements see it *)

TypeText == <<"t", "e", "x", "t">>
TypeJson == <<"j", "s", "o", "n">>
TypeJsonb == <<"j", "s", "o", "n", "b">>
TypeInteger == <<"i", "n", "t", "e", "g", "e", "r">>

ColNames == {"key", "state", "data", "extra"}
NoType == <<>>

\* cols maps each column name to its data_type as the catalog reports it,
\* NoType for a column the table does not have
NoTable == [exists |-> FALSE, cols |-> [c \in ColNames |-> NoType], rows |-> <<>>]

\* a memory_cache table with the given columns and no rows; a key column
\* carries the primary key
Table(cols) == [exists |-> TRUE, cols |-> cols, rows |-> <<>>]

Columns(d) == {c \in ColNames : d.cols[c] # NoType}

Row(k, state, data) == [key |-> k, state |-> state, data |-> data]

\* SELECT column_name, data_type FROM information_schema.columns
\* WHERE table_name = 'memory_cache'
CatalogColumns(d) ==
    IF d.exists
    THEN {[column_name |-> c, data_type |-> d.cols[c]] : c \in Columns(d)}
    ELSE {}

RowsOf(d, k) == {i \in 1..Len(d.rows) : d.rows[i].key = k}

\* the error a statement naming these columns of memory_cache ends with
StatementError(d, columns) ==
    IF ~d.exists THEN "UndefinedTableError"
    ELSE IF ~(columns \subseteq Columns(d)) THEN "UndefinedColumnError"
    ELSE "none"

\* CREATE TABLE memory_cache (key TEXT PRIMARY KEY, state TEXT, data JSON)
CreateTableError(d) == IF d.exists THEN "DuplicateTableError" ELSE "none"
CreateTable(d) ==
    Table([c \in ColNames |->
             CASE c = "data" -> TypeJson
               [] c \in {"key", "state"} -> TypeText
               [] OTHER -> NoType])

\* an insert that replaces the rows of the table by the new row
InsertReplacing(d, k, state, data) == [d EXCEPT !.rows = <<Row(k, state, data)>>]

\* INSERT INTO memory_cache (key, state, data) VALUES (k, state, data)
InsertError(d, k) ==
    IF StatementError(d, {"key", "state", "data"}) # "none"
    THEN StatementError(d, {"key", "state", "data"})
    ELSE IF RowsOf(d, k) # {} THEN "UniqueViolationError"
    ELSE "none"
Insert(d, k, state, data) == [d EXCEPT !.rows = Append(@, Row(k, state, data))]

\* the state upsert with ON CONFLICT (key) DO NOTHING
UpsertStateInsertOnly(d, k, state) ==
    IF RowsOf(d, k) = {} THEN Insert(d, k, state, EmptyDoc) ELSE d

\* the state upsert that keeps the stored label when the new one is NULL or ''
UpsertStateKeepsOnEmpty(d, k, state) ==
    IF RowsOf(d, k) = {} THEN Insert(d, k, state, EmptyDoc)
    ELSE [d EXCEPT !.rows = [i \in 1..Len(@) |->
                                IF @[i].key = k /\ Truthy(state)
                                THEN [@[i] EXCEPT !.state = state]
                                ELSE @[i]]]

\* INSERT ... ON CONFLICT (key) DO UPDATE SET state = EXCLUDED.state
UpsertState(d, k, state) ==
    IF RowsOf(d, k) = {} THEN Insert(d, k, state, EmptyDoc)
    ELSE [d EXCEPT !.rows = [i \in 1..Len(@) |->
                                IF @[i].key = k THEN [@[i] EXCEPT !.state = state]
                                ELSE @[i]]]

\* the data upsert with ON CONFLICT (key) DO NOTHING
UpsertDataInsertOnly(d, k, data) ==
    IF RowsOf(d, k) = {} THEN Insert(d, k, PyStr(<<>>), data) ELSE d

\* the data upsert whose update has no WHERE on the key
UpsertDataAllRows(d, k, data) ==
    IF RowsOf(d, k) = {} THEN Insert(d, k, PyStr(<<>>), data)
    ELSE [d EXCEPT !.rows = [i \in 1..Len(@) |-> [@[i] EXCEPT !.data = data]]]

\* INSERT ... ON CONFLICT (key) DO UPDATE SET data = EXCLUDED.data
UpsertData(d, k, data) ==
    IF RowsOf(d, k) = {} THEN Insert(d, k, PyStr(<<>>), data)
    ELSE [d EXCEPT !.rows = [i \in 1..Len(@) |->
                                IF @[i].key = k THEN [@[i] EXCEPT !.data = data]
                                ELSE @[i]]]

\* fetchval("SELECT <column> FROM memory_cache WHERE key = $1"): the first
\* row's value, None when no row matches or the value is NULL
FetchVal(d, column, k) ==
    IF RowsOf(d, k) = {} THEN NoneV
    ELSE LET r == d.rows[CHOOSE i \in RowsOf(d, k) : \A j \in RowsOf(d, k) : i <= j]
         IN  IF column = "state" THEN r.state
             ELSE IF r.data.t = "None" THEN NoneV ELSE JsonText(r.data)

\* fetchval("SELECT 1 FROM memory_cache WHERE key = $1")
FetchOne(d, k) == IF RowsOf(d, k) = {} THEN NoneV ELSE PyInt(1)

-----------------------------------------------------------------------------
(* A call in progress: the storage's fields, the database, the exception   *)
(* raised (if any), the value returned and the round trips made so far.    *)
(* fault names the round trip at which the connection is lost.             *)

HandleIds == {1, 2}

Faults == {"none", "probe", "close", "connect", "schema", "create",
           "rowcheck", "insert", "query"}

Begin(f) ==
    [conn |-> conn, handles |-> handles, db |-> db, fault |-> f, fired |-> FALSE,
     exc |-> "none", ret |-> NoneV, trace |-> <<>>]

Ok(c) == c.exc = "none"
Raise(c, e) == [c EXCEPT !.exc = e]
Step(c, step) == [c EXCEPT !.trace = Append(@, step)]

\* one statement sent on self.postgresql_connection: an AttributeError when
\* the field is None, a driver error when the handle is not usable or the
\* connection is lost now
RoundTrip(c, step) ==
    IF c.conn = 0 THEN Raise(c, "AttributeError")
    ELSE IF c.handles[c.conn] # "open" THEN Raise(Step(c, step), "DriverError")
    ELSE IF c.fault = step
         THEN [Step(c, step) EXCEPT !.handles[c.conn] = "broken", !.fired = TRUE,
                                    !.exc = "DriverError"]
    ELSE Step(c, step)

\* close() that also clears the field
closeForgetsHandle(c) ==
    IF c.conn = 0 THEN Raise(c, "AttributeError")
    ELSE [Step(c, "close") EXCEPT !.handles[c.conn] = "closed", !.conn = 0]

\* close(): closes the held connection and keeps the handle
close(c) ==
    IF c.conn = 0 THEN Raise(c, "AttributeError")
    ELSE IF c.handles[c.conn] = "closed" THEN Step(c, "close")
    ELSE IF c.fault = "close"
         THEN [Step(c, "close") EXCEPT !.handles[c.conn] = "closed", !.fired = TRUE,
                                       !.exc = "DriverError"]
    ELSE [Step(c, "close") EXCEPT !.handles[c.conn] = "closed"]

\* asyncpg.connect(self.postgresql_url): a handle not in use becomes the
\* held one
connect(c) ==
    IF c.fault = "connect"
    THEN [Step(c, "connect") EXCEPT !.fired = TRUE, !.exc = "ConnectError"]
    ELSE LET h == CHOOSE i \in HandleIds :
                    /\ c.handles[i] = "free"
                    /\ \A j \in HandleIds : c.handles[j] = "free" => i <= j
         IN  [Step(c, "connect") EXCEPT !.handles[h] = "open", !.conn = h]

\* handles the storage no longer refers to are gone
Collect(c) ==
    [c EXCEPT !.handles = [i \in HandleIds |-> IF i = c.conn THEN @[i] ELSE "free"]]

\* get_connection where a failed probe leaves the handle in place
get_connectionKeepDead(c) ==
    LET probe == RoundTrip(c, "probe")
    IN  IF c.conn # 0 THEN Raise(probe, "none") ELSE Collect(connect(c))

get_connection(c) ==
    LET probe == RoundTrip(c, "probe")
        closed == close(Raise(probe, "none"))
        probed ==
            IF c.conn = 0 THEN c
            ELSE IF Ok(probe) THEN probe
            ELSE IF ~Ok(closed) THEN closed
            ELSE [closed EXCEPT !.conn = 0]
    IN  IF ~Ok(probed) \/ probed.conn # 0 THEN probed
        ELSE Collect(connect(probed))

-----------------------------------------------------------------------------
(* PostgreSQLStorage.ensure_exists *)

\* memory_cache_model = {"key": "TEXT", "state": "TEXT", "data": "JSON"}
memory_cache_model ==
    [c \in {"key", "state", "data"} |-> IF c = "data" THEN Upper(TypeJson) ELSE Upper(TypeText)]

\* the else branch of the structure check: some model field is missing from
\* the discovered columns or has another upper-cased type
StructureDiffers(memory_cache) ==
    LET exists == [n \in {r.column_name : r \in memory_cache} |->
                     Upper((CHOOSE r \in memory_cache : r.column_name = n).data_type)]
    IN  \E model_field \in DOMAIN memory_cache_model :
            \/ model_field \notin DOMAIN exists
            \/ exists[model_field] # memory_cache_model[model_field]

\* the schema half that replaces a table of another structure by a new one
\* before raising
EnsureSchemaRecreates(c) ==
    LET q == RoundTrip(c, "schema")
        memory_cache == CatalogColumns(q.db)
    IN  IF Ok(q) /\ memory_cache # {} /\ StructureDiffers(memory_cache)
        THEN Raise([q EXCEPT !.db = CreateTable(@)], "StructureError")
        ELSE q

\* the schema half of ensure_exists: catalog query, then CREATE TABLE or the
\* structure check
EnsureSchema(c) ==
    LET q == RoundTrip(c, "schema")
        memory_cache == CatalogColumns(q.db)
        create == RoundTrip(q, "create")
    IN  IF ~Ok(q) THEN q
        ELSE IF memory_cache = {}
             THEN IF ~Ok(create) THEN create
                  ELSE IF CreateTableError(create.db) # "none"
                       THEN Raise(create, CreateTableError(create.db))
                  ELSE [create EXCEPT !.db = CreateTable(@)]
        ELSE IF StructureDiffers(memory_cache) THEN Raise(q, "StructureError")
        ELSE q

\* the row half of ensure_exists that never inserts the default row
EnsureRowNoInsert(c, k) ==
    LET q == RoundTrip(c, "rowcheck")
    IN  IF ~Ok(q) THEN q
        ELSE IF StatementError(q.db, {"key"}) # "none"
             THEN Raise(q, StatementError(q.db, {"key"}))
        ELSE q

\* the row half of ensure_exists that inserts the default row unconditionally
EnsureRowAlwaysInsert(c, k) ==
    LET ins == RoundTrip(c, "insert")
    IN  IF ~Ok(ins) THEN ins
        ELSE IF StatementError(ins.db, {"key", "state", "data"}) # "none"
             THEN Raise(ins, StatementError(ins.db, {"key", "state", "data"}))
        ELSE [ins EXCEPT !.db = Insert(@, k, PyStr(<<>>), EmptyDoc)]

\* the row half of ensure_exists: row check, then the default-row insert
EnsureRow(c, k) ==
    LET q == RoundTrip(c, "rowcheck")
        result == FetchOne(q.db, k)
        ins == RoundTrip(q, "insert")
    IN  IF ~Ok(q) THEN q
        ELSE IF StatementError(q.db, {"key"}) # "none"
             THEN Raise(q, StatementError(q.db, {"key"}))
        ELSE IF Truthy(result) THEN q
        ELSE IF ~Ok(ins) THEN ins
        ELSE IF InsertError(ins.db, k) # "none" THEN Raise(ins, InsertError(ins.db, k))
        ELSE [ins EXCEPT !.db = Insert(@, k, PyStr(<<>>), EmptyDoc)]

ensure_exists(c, k) ==
    LET schema == EnsureSchema(c)
    IN  IF ~Ok(schema) THEN schema ELSE EnsureRow(schema, k)

-----------------------------------------------------------------------------
(* PostgreSQLStorage accessors *)

\* the accessor preamble without the ensure_exists call
PrepareSkipsEnsure(c, key) ==
    LET live == get_connection(c)
    IN  IF ~Ok(live) THEN live ELSE Step(live, "build")

\* get_connection(), key_builder.build(key), ensure_exists(postgres_key)
Prepare(c, key) ==
    LET live == get_connection(c)
    IN  IF ~Ok(live) THEN live ELSE ensure_exists(Step(live, "build"), build(key))

\* state.state if isinstance(state, State) else state
StateValue(state) == IF state.t = "State" THEN state.state ELSE state

\* set_state whose upsert also overwrites data with the inserted '{}'
set_stateResetsData(c, key, state) ==
    LET ready == Prepare(c, key)
        q == RoundTrip(ready, "query")
    IN  IF ~Ok(ready) THEN ready
        ELSE IF ~Ok(q) THEN q
        ELSE [q EXCEPT !.db = UpsertData(UpsertState(@, build(key), StateValue(state)),
                                         build(key), EmptyDoc)]

set_state(c, key, state) ==
    LET ready == Prepare(c, key)
        q == RoundTrip(ready, "query")
    IN  IF ~Ok(ready) THEN ready
        ELSE IF ~Ok(q) THEN q
        ELSE [q EXCEPT !.db = UpsertState(@, build(key), StateValue(state))]

\* get_state that returns the fetched value as it is
get_stateRaw(c, key) ==
    LET ready == Prepare(c, key)
        q == RoundTrip(ready, "query")
    IN  IF ~Ok(ready) THEN ready
        ELSE IF ~Ok(q) THEN q
        ELSE [q EXCEPT !.ret = FetchVal(q.db, "state", build(key))]

get_state(c, key) ==
    LET ready == Prepare(c, key)
        q == RoundTrip(ready, "query")
        result == FetchVal(q.db, "state", build(key))
    IN  IF ~Ok(ready) THEN ready
        ELSE IF ~Ok(q) THEN q
        ELSE [q EXCEPT !.ret = IF Truthy(result) THEN result ELSE NoneV]

set_data(c, key, data) ==
    LET ready == Prepare(c, key)
        q == RoundTrip(ready, "query")
    IN  IF ~Ok(ready) THEN ready
        ELSE IF ~Ok(q) THEN q
        ELSE [q EXCEPT !.db = UpsertData(@, build(key), JsonbCast(json_dumps(data)))]

get_data(c, key) ==
    LET ready == Prepare(c, key)
        q == RoundTrip(ready, "query")
        result == FetchVal(q.db, "data", build(key))
    IN  IF ~Ok(ready) THEN ready
        ELSE IF ~Ok(q) THEN q
        ELSE [q EXCEPT !.ret = IF Truthy(result) THEN json_loads(result) ELSE PyDict(<<>>)]

-----------------------------------------------------------------------------
(* The storage: inputs, initial states, one action per public method *)

Keys == {StorageKey(1, 12), StorageKey(11, 2)}

StateArgs == {NoneV, PyStr(<<>>), PyStr(<<"A">>), StateObj(PyStr(<<"B">>))}

DataArgs ==
    {PyDict(<<>>),
     PyDict(<<Item(PyStr(<<"a">>), PyInt(1))>>),
     PyDict(<<Item(PyStr(<<"a">>), PyTuple(<<PyInt(1)>>))>>),
     PyDict(<<Item(PyInt(1), PyInt(1))>>)}

\* what a database may hold before the storage first runs: no memory_cache
\* table, or one with any subset of the columns, each of the expected type
\* or of another
AnyTables ==
    {NoTable} \cup
    {Table(cols) : cols \in
        {f \in [ColNames -> {NoType, TypeText, TypeJson, TypeJsonb, TypeInteger}] :
            /\ f["key"] \in {NoType, TypeText, TypeInteger}
            /\ f["state"] \in {NoType, TypeText, TypeInteger}
            /\ f["data"] \in {NoType, TypeJson, TypeJsonb}
            /\ f["extra"] \in {NoType, TypeInteger}}}

\* the same without the tables that have a column beyond the three
PlainTables == {d \in AnyTables : d.cols["extra"] = NoType}

Unset == [t |-> "unset"]
NoKey == StorageKey(0, 0)

StateCol(d, k) == {d.rows[i].state : i \in RowsOf(d, k)}
DataCol(d, k) == {d.rows[i].data : i \in RowsOf(d, k)}

\* what the call found: the handle held and its condition, whether the
\* table was there, the rows under the call's key, for a setter the values
\* of the column it does not write, and for ensure_exists whether the call
\* before it was the same call, completed
Before(op, key) ==
    [conn |-> conn, status |-> IF conn = 0 THEN "none" ELSE handles[conn],
     table |-> db.exists, rows |-> Cardinality(RowsOf(db, build(key))),
     other |-> CASE op = "set_state" -> DataCol(db, build(key))
                 [] op = "set_data" -> StateCol(db, build(key))
                 [] OTHER -> {},
     again |-> op = "ensure_exists" /\ last.op = op /\ last.key = key
               /\ last.exc = "none"]

\* the record of a call: its inputs, the round trip at which the connection
\* was lost, the exception, the value returned, the round trips made, what
\* it found, and for ensure_exists whether it left the database as it was
Called(op, key, arg, c) ==
    [op |-> op, key |-> key, arg |-> arg,
     fault |-> IF c.fired THEN c.fault ELSE "none",
     exc |-> c.exc, ret |-> c.ret, trace |-> c.trace, before |-> Before(op, key),
     unchanged |-> op = "ensure_exists" /\ c.db = db]

StoreInit(tables) ==
    /\ conn = 0
    /\ handles = [i \in HandleIds |-> "free"]
    /\ db \in tables
    /\ last = [op |-> "init", key |-> NoKey, arg |-> NoneV, fault |-> "none",
               exc |-> "none", ret |-> NoneV, trace |-> <<>>,
               before |-> [conn |-> 0, status |-> "none", table |-> FALSE,
                           rows |-> 0, other |-> {}, again |-> FALSE],
               unchanged |-> FALSE]
    /\ setState = [k \in Keys |-> Unset]
    /\ setData = [k \in Keys |-> Unset]

Apply(c) ==
    /\ conn' = c.conn
    /\ handles' = c.handles
    /\ db' = c.db

CallSetState(key, state, f) ==
    LET c == set_state(Begin(f), key, state)
    IN  /\ Apply(c)
        /\ last' = Called("set_state", key, state, c)
        /\ setState' = IF Ok(c) THEN [setState EXCEPT ![key] = state] ELSE setState
        /\ UNCHANGED <<setData, kb, reg, workers>>

CallGetState(key, f) ==
    LET c == get_state(Begin(f), key)
    IN  /\ Apply(c)
        /\ last' = Called("get_state", key, NoneV, c)
        /\ UNCHANGED <<setState, setData, kb, reg, workers>>

CallSetData(key, data, f) ==
    LET c == set_data(Begin(f), key, data)
    IN  /\ Apply(c)
        /\ last' = Called("set_data", key, data, c)
        /\ setData' = IF Ok(c) THEN [setData EXCEPT ![key] = data] ELSE setData
        /\ UNCHANGED <<setState, kb, reg, workers>>

CallGetData(key, f) ==
    LET c == get_data(Begin(f), key)
    IN  /\ Apply(c)
        /\ last' = Called("get_data", key, NoneV, c)
        /\ UNCHANGED <<setState, setData, kb, reg, workers>>

\* ensure_exists called on its own with a built key
CallEnsureExists(key, f) ==
    LET c == ensure_exists(Begin(f), build(key))
    IN  /\ Apply(c)
        /\ last' = Called("ensure_exists", key, NoneV, c)
        /\ UNCHANGED <<setState, setData, kb, reg, workers>>

CallGetConnection(f) ==
    LET c == get_connection(Begin(f))
    IN  /\ Apply(c)
        /\ last' = Called("get_connection", NoKey, NoneV, c)
        /\ UNCHANGED <<setState, setData, kb, reg, workers>>

CallClose(f) ==
    LET c == close(Begin(f))
    IN  /\ Apply(c)
        /\ last' = Called("close", NoKey, NoneV, c)
        /\ UNCHANGED <<setState, setData, kb, reg, workers>>

KeyIdle == kb = [k1 |-> NoKey, k2 |-> NoKey, s1 |-> <<>>, s2 |-> <<>>]
RegIdle ==
    reg = [op |-> "init", user |-> NoneV, event |-> NoneV, entry |-> NoneV,
           calls |-> <<>>, exc |-> "none"]

Workers == {1, 2}
IdleWorker ==
    [pc |-> "idle", op |-> "init", key |-> NoKey, arg |-> NoneV, exc |-> "none",
     ret |-> NoneV]
RaceIdle == workers = [w \in Workers |-> IdleWorker]

(* Spec: the four accessors over a connection that stays up; every key and *)
(* argument                                                                *)

SetState == \E key \in Keys, state \in StateArgs : CallSetState(key, state, "none")
GetState == \E key \in Keys : CallGetState(key, "none")
SetData == \E key \in Keys, data \in DataArgs : CallSetData(key, data, "none")
GetData == \E key \in Keys : CallGetData(key, "none")

Init == StoreInit(PlainTables) /\ KeyIdle /\ RegIdle /\ RaceIdle

Next ==
    \/ SetState
    \/ GetState
    \/ SetData
    \/ GetData

Spec == Init /\ [][Next]_vars

(* SpecConn: every public method over a connection that can be lost at any *)
(* round trip or closed by the caller; one key, any initial table          *)

ConnKey == StorageKey(1, 12)
ConnStateArgs == {PyStr(<<"A">>)}
ConnDataArgs == {PyDict(<<Item(PyStr(<<"a">>), PyInt(1))>>)}

LossySetState == \E state \in ConnStateArgs, f \in Faults : CallSetState(ConnKey, state, f)
LossyGetState == \E f \in Faults : CallGetState(ConnKey, f)
LossySetData == \E data \in ConnDataArgs, f \in Faults : CallSetData(ConnKey, data, f)
LossyGetData == \E f \in Faults : CallGetData(ConnKey, f)
EnsureExists == \E f \in Faults : CallEnsureExists(ConnKey, f)
GetConnection == \E f \in Faults : CallGetConnection(f)
Close == \E f \in Faults : CallClose(f)

NextConn ==
    \/ LossySetState
    \/ LossyGetState
    \/ LossySetData
    \/ LossyGetData
    \/ EnsureExists
    \/ GetConnection
    \/ Close

InitConn == StoreInit(AnyTables) /\ KeyIdle /\ RegIdle /\ RaceIdle
SpecConn == InitConn /\ [][NextConn]_vars

-----------------------------------------------------------------------------
(* SpecKey: one run of the key builder on two storage keys *)

ChatIds == (0 - 2)..MaxId
UserIds == 0..MaxId

BuildKeys ==
    /\ kb.s1 = <<>>
    /\ \E c1 \in ChatIds, u1 \in UserIds, c2 \in ChatIds, u2 \in UserIds :
        /\ kb' = [k1 |-> StorageKey(c1, u1), k2 |-> StorageKey(c2, u2),
                  s1 |-> build(StorageKey(c1, u1)), s2 |-> build(StorageKey(c2, u2))]
        /\ UNCHANGED <<conn, handles, db, last, setState, setData, reg, workers>>

StoreIdle == StoreInit({NoTable})

InitKey == StoreIdle /\ KeyIdle /\ RegIdle /\ RaceIdle
NextKey == BuildKeys
SpecKey == InitKey /\ [][NextKey]_vars

-----------------------------------------------------------------------------
(* registr *)

\* a Python object: its value and its identity; None is one object
Obj(v, id) == [v |-> v, id |-> id]
NoneObj == Obj("None", 0)
\* a is b
Is(a, b) == a.id = b.id

User(first_name, last_name, username) ==
    [t |-> "User", first_name |-> first_name, last_name |-> last_name,
     username |-> username]
Event(id, first_name, last_name, username) ==
    [t |-> "Event", id |-> id, first_name |-> first_name, last_name |-> last_name,
     username |-> username]
RepoCall(method, args) == [method |-> method, args |-> args]

\* registr that does not look at what entry returned
registrIgnoresEntry(event_from_user, user, entryResult) ==
    IF Truthy(user)
    THEN [calls |-> <<>>, exc |-> "none"]
    ELSE [calls |-> <<RepoCall("entry", <<event_from_user.id, event_from_user.first_name,
                                          event_from_user.last_name,
                                          event_from_user.username>>)>>,
          exc |-> "none"]

\* registr(event_from_user, user, container): the collaborator calls made, in
\* order, and the exception raised; entryResult is what
\* container.user_repository.entry returns when called
registr(event_from_user, user, entryResult) ==
    IF Truthy(user)
    THEN [calls |->
            (IF ~Is(user.first_name, event_from_user.first_name)
             THEN <<RepoCall("update_first_name",
                             <<event_from_user.id, event_from_user.first_name>>)>>
             ELSE <<>>)
            \o (IF ~Is(user.last_name, event_from_user.last_name)
                THEN <<RepoCall("update_last_name",
                                <<event_from_user.id, event_from_user.last_name>>)>>
                ELSE <<>>)
            \o (IF ~Is(user.username, event_from_user.username)
                THEN <<RepoCall("update_username",
                                <<event_from_user.id, event_from_user.username>>)>>
                ELSE <<>>),
          exc |-> "none"]
    ELSE [calls |-> <<RepoCall("entry", <<event_from_user.id, event_from_user.first_name,
                                          event_from_user.last_name,
                                          event_from_user.username>>)>>,
          exc |-> IF ~Truthy(entryResult) THEN "RegistrationError" ELSE "none"]

\* profile values: two equal strings that are different objects, another
\* string, and None
FieldObjs == {Obj("Ann", 1), Obj("Ann", 2), Obj("Bob", 3), NoneObj}
EventId == Obj("7", 4)
\* what entry may return: a created record, or None / 0 for no row created
EntryResults == {[t |-> "User"], NoneV, PyInt(0)}

Users == {NoneV} \cup {User(f, l, u) : f \in FieldObjs, l \in FieldObjs, u \in FieldObjs}
Events == {Event(EventId, f, l, u) : f \in FieldObjs, l \in FieldObjs, u \in FieldObjs}

Registr ==
    /\ reg.op = "init"
    /\ \E event \in Events, user \in Users, entryResult \in EntryResults :
        /\ Truthy(user) => entryResult = NoneV
        /\ LET r == registr(event, user, entryResult)
           IN  reg' = [op |-> "registr", user |-> user, event |-> event,
                       entry |-> entryResult, calls |-> r.calls, exc |-> r.exc]
        /\ UNCHANGED <<conn, handles, db, last, setState, setData, kb, workers>>

InitReg == StoreIdle /\ KeyIdle /\ RegIdle /\ RaceIdle
NextReg == Registr
SpecReg == InitReg /\ [][NextReg]_vars

-----------------------------------------------------------------------------
(* SpecRace: two workers, each with a store and a connection of its own    *)
(* (which stays up), calling accessors against one database; a call gives  *)
(* way to the other worker at each await on the database                   *)

RaceArg(op) ==
    CASE op = "set_state" -> PyStr(<<"A">>)
      [] op = "set_data" -> PyDict(<<Item(PyStr(<<"a">>), PyInt(1))>>)
      [] OTHER -> NoneV

Finish(w, exc, ret) ==
    workers' = [workers EXCEPT ![w].pc = "idle", ![w].exc = exc, ![w].ret = ret]
Goto(w, pc) == workers' = [workers EXCEPT ![w].pc = pc]

\* the accessor is entered: get_connection() on the worker's own connection
\* and key_builder.build(key); ensure_exists comes next
Start(w, op, key) ==
    /\ workers[w].pc = "idle"
    /\ workers' = [workers EXCEPT ![w] = [pc |-> "schema", op |-> op, key |-> key,
                                          arg |-> RaceArg(op), exc |-> "none",
                                          ret |-> NoneV]]
    /\ UNCHANGED db

\* ensure_exists: the catalog query and the branch on its result
SchemaQuery(w) ==
    /\ workers[w].pc = "schema"
    /\ LET memory_cache == CatalogColumns(db)
       IN  IF memory_cache = {} THEN Goto(w, "create")
           ELSE IF StructureDiffers(memory_cache) THEN Finish(w, "StructureError", NoneV)
           ELSE Goto(w, "rowcheck")
    /\ UNCHANGED db

\* ensure_exists: CREATE TABLE memory_cache
CreateStatement(w) ==
    /\ workers[w].pc = "create"
    /\ IF CreateTableError(db) # "none"
       THEN Finish(w, CreateTableError(db), NoneV) /\ UNCHANGED db
       ELSE Goto(w, "rowcheck") /\ db' = CreateTable(db)

\* ensure_exists: SELECT 1 ... WHERE key = $1 and the branch on its result
RowCheck(w) ==
    /\ workers[w].pc = "rowcheck"
    /\ LET result == FetchOne(db, build(workers[w].key))
       IN  IF Truthy(result) THEN Goto(w, "query") ELSE Goto(w, "insert")
    /\ UNCHANGED db

\* ensure_exists: the default-row insert
InsertStatement(w) ==
    /\ workers[w].pc = "insert"
    /\ LET k == build(workers[w].key)
       IN  IF InsertError(db, k) # "none"
           THEN Finish(w, InsertError(db, k), NoneV) /\ UNCHANGED db
           ELSE Goto(w, "query") /\ db' = Insert(db, k, PyStr(<<>>), EmptyDoc)

\* the accessor's own statement and its return
QueryStatement(w) ==
    /\ workers[w].pc = "query"
    /\ LET k == build(workers[w].key)
           op == workers[w].op
           state == FetchVal(db, "state", k)
           data == FetchVal(db, "data", k)
       IN  CASE op = "set_state" ->
                  /\ db' = UpsertState(db, k, StateValue(workers[w].arg))
                  /\ Finish(w, "none", NoneV)
             [] op = "set_data" ->
                  /\ db' = UpsertData(db, k, JsonbCast(json_dumps(workers[w].arg)))
                  /\ Finish(w, "none", NoneV)
             [] op = "get_state" ->
                  /\ UNCHANGED db
                  /\ Finish(w, "none", IF Truthy(state) THEN state ELSE NoneV)
             [] op = "get_data" ->
                  /\ UNCHANGED db
                  /\ Finish(w, "none",
                            IF Truthy(data) THEN json_loads(data) ELSE PyDict(<<>>))

RaceFrame == UNCHANGED <<conn, handles, last, setState, setData, kb, reg>>

RaceStart ==
    \E w \in Workers, op \in {"set_state", "get_state", "set_data", "get_data"},
       key \in Keys : Start(w, op, key) /\ RaceFrame
RaceSchema == \E w \in Workers : SchemaQuery(w) /\ RaceFrame
RaceCreate == \E w \in Workers : CreateStatement(w) /\ RaceFrame
RaceRowCheck == \E w \in Workers : RowCheck(w) /\ RaceFrame
RaceInsert == \E w \in Workers : InsertStatement(w) /\ RaceFrame
RaceQuery == \E w \in Workers : QueryStatement(w) /\ RaceFrame

NextRace ==
    \/ RaceStart
    \/ RaceSchema
    \/ RaceCreate
    \/ RaceRowCheck
    \/ RaceInsert
    \/ RaceQuery

InitRace ==
    /\ StoreInit({NoTable, CreateTable(NoTable)})
    /\ KeyIdle
    /\ RegIdle
    /\ RaceIdle
SpecRace == InitRace /\ [][NextRace]_vars

-----------------------------------------------------------------------------
(* Properties *)

Accessors == {"set_state", "get_state", "set_data", "get_data"}
Completed(op) == last.op = op /\ last.exc = "none"
LastKey == build(last.key)
DefaultState == PyStr(<<>>)

\* the label a set_state argument stands for
LabelOf(arg) == IF arg.t = "State" THEN arg.state ELSE arg
NonEmptyLabel(v) == v.t = "str" /\ Len(v.s) > 0

\* C1: once set_state(k, S) has completed with a non-empty label S (raw or
\* inside a state object), every completed get_state(k) returns S until the
\* next completed set_state on k, whatever calls come before or between.
C1_StateRoundTrip ==
    (/\ Completed("get_state")
     /\ setState[last.key] # Unset
     /\ NonEmptyLabel(LabelOf(setState[last.key])))
    => last.ret = LabelOf(setState[last.key])

C1_Witness ==
    /\ Completed("get_state")
    /\ setState[last.key] = StateObj(PyStr(<<"B">>))
    /\ last.ret = PyStr(<<"B">>)
    /\ Len(db.rows) = 2

DictKeys(d) == {d.items[i].k : i \in 1..Len(d.items)}
DictGet(d, k) == d.items[CHOOSE i \in 1..Len(d.items) : d.items[i].k = k].v
\* dict.__eq__: same keys, equal values, whatever the order
DictEq(d, e) ==
    /\ DictKeys(d) = DictKeys(e)
    /\ \A k \in DictKeys(d) : DictGet(d, k) = DictGet(e, k)

\* a mapping JSON writes and reads back as itself: str keys, and values that
\* are ints, strs or lists of ints
JsonNative(d) ==
    \A i \in 1..Len(d.items) :
        /\ d.items[i].k.t = "str"
        /\ d.items[i].v.t \in {"int", "str", "list"}

\* C2 as stated: once set_data(k, d) has completed, every completed
\* get_data(k) returns a mapping equal to d until the next completed set_data
\* on k, for every mapping d that json.dumps accepts.
C2_DataRoundTripAnyMapping ==
    (Completed("get_data") /\ setData[last.key] # Unset)
    => DictEq(last.ret, setData[last.key])

\* C2 amended: the same for every mapping d with str keys whose values are
\* ints, strs or lists of ints.
C2_DataRoundTrip ==
    (/\ Completed("get_data")
     /\ setData[last.key] # Unset
     /\ JsonNative(setData[last.key]))
    => DictEq(last.ret, setData[last.key])

C2_Witness ==
    /\ Completed("get_data")
    /\ setData[last.key] = PyDict(<<Item(PyStr(<<"a">>), PyInt(1))>>)
    /\ last.ret = PyDict(<<Item(PyStr(<<"a">>), PyInt(1))>>)
    /\ Len(db.rows) = 2

DefaultRowOnly(k) ==
    /\ Cardinality(RowsOf(db, k)) = 1
    /\ StateCol(db, k) = {DefaultState}
    /\ DataCol(db, k) = {EmptyDoc}

\* C3: a completed get_state on a key with no row returns None, a completed
\* get_data on such a key returns an empty mapping, and after either call the
\* table holds the default row (state '', data {}) for the key.
C3_NeverSeenKeyDefaults ==
    /\ (Completed("get_state") /\ last.before.rows = 0)
       => (last.ret = NoneV /\ DefaultRowOnly(LastKey))
    /\ (Completed("get_data") /\ last.before.rows = 0)
       => (last.ret = PyDict(<<>>) /\ DefaultRowOnly(LastKey))

C3_Witness ==
    /\ Completed("get_state")
    /\ last.before.rows = 0
    /\ last.ret = NoneV
    /\ DefaultRowOnly(LastKey)

\* the expected type of each expected column, compared ignoring case
ExpectedType(c) == IF c = "data" THEN TypeJson ELSE TypeText
Incompatible(d) ==
    \E c \in {"key", "state", "data"} :
        \/ d.cols[c] = NoType
        \/ Upper(d.cols[c]) # Upper(ExpectedType(c))

\* C4: while a memory_cache table exists that lacks one of the columns key,
\* state, data or declares one of them with a type other than TEXT, TEXT,
\* JSON, every accessor call fails with StructureError.
C4_IncompatibleTableStructureError ==
    (last.op \in Accessors /\ db.exists /\ Incompatible(db))
    => last.exc = "StructureError"

\* the decimal value of a numeral
DigitValue(ch) == (CHOOSE i \in 1..10 : Digits[i] = ch) - 1
IsNumeral(s) == Len(s) > 0 /\ \A i \in 1..Len(s) : \E j \in 1..10 : Digits[j] = s[i]
RECURSIVE ParseNat(_)
ParseNat(s) ==
    IF Len(s) = 0 THEN 0
    ELSE ParseNat(SubSeq(s, 1, Len(s) - 1)) * 10 + DigitValue(s[Len(s)])
IsIntText(s) == Len(s) > 0 /\ IsNumeral(IF s[1] = "-" THEN Tail(s) ELSE s)
ParseInt(s) == IF s[1] = "-" THEN 0 - ParseNat(Tail(s)) ELSE ParseNat(s)

CountChar(s, c) == Cardinality({i \in 1..Len(s) : s[i] = c})

\* s reads "/{chat_id}/{user_id}/" for the ids of key
KeyForm(s, key) ==
    /\ Len(s) >= 5
    /\ CountChar(s, "/") = 3
    /\ s[1] = "/"
    /\ s[Len(s)] = "/"
    /\ LET m == CHOOSE i \in 2..(Len(s) - 1) : s[i] = "/"
       IN  /\ IsIntText(SubSeq(s, 2, m - 1))
           /\ IsIntText(SubSeq(s, m + 1, Len(s) - 1))
           /\ ParseInt(SubSeq(s, 2, m - 1)) = key.chat_id
           /\ ParseInt(SubSeq(s, m + 1, Len(s) - 1)) = key.user_id

KeysBuilt == kb.s1 # <<>>

\* C5: the key builder maps equal (chat_id, user_id) pairs to equal strings
\* and distinct pairs to distinct strings, each of the form
\* "/{chat_id}/{user_id}/".
C5_KeyBuilderInjective ==
    KeysBuilt =>
        /\ (kb.k1 = kb.k2) <=> (kb.s1 = kb.s2)
        /\ KeyForm(kb.s1, kb.k1)
        /\ KeyForm(kb.s2, kb.k2)

C5_Witness ==
    /\ KeysBuilt
    /\ kb.k1 = StorageKey(1, 12)
    /\ kb.k2 = StorageKey(11, 2)
    /\ kb.s1 # kb.s2

\* C6: a completed set_data leaves the state of its key's row as it was, and
\* a completed set_state leaves the data as it was; where the key had no row,
\* set_data leaves state '' and set_state leaves data {}.
C6_SettersFrame ==
    /\ Completed("set_data") =>
           StateCol(db, LastKey) =
               (IF last.before.rows = 0 THEN {DefaultState} ELSE last.before.other)
    /\ Completed("set_state") =>
           DataCol(db, LastKey) =
               (IF last.before.rows = 0 THEN {EmptyDoc} ELSE last.before.other)

C6_Witness ==
    /\ Completed("set_state")
    /\ last.before.rows = 1
    /\ last.before.other = {JObject(<<Member(<<"a">>, JNumber(1))>>)}
    /\ DataCol(db, LastKey) = last.before.other
    /\ StateCol(db, LastKey) = {PyStr(<<"A">>)}

\* C7: after any accessor completes for key k the table exists and holds
\* exactly one row with key build(k); where the call found no such row, the
\* columns the call does not write hold the defaults ('' and {}).
C7_RowExistsAfterAccess ==
    (last.op \in Accessors /\ last.exc = "none") =>
        /\ db.exists
        /\ Cardinality(RowsOf(db, LastKey)) = 1
        /\ (last.before.rows = 0 /\ last.op # "set_state")
           => StateCol(db, LastKey) = {DefaultState}
        /\ (last.before.rows = 0 /\ last.op # "set_data")
           => DataCol(db, LastKey) = {EmptyDoc}

C7_Witness ==
    /\ Completed("get_data")
    /\ ~last.before.table
    /\ last.before.rows = 0
    /\ db.exists
    /\ Cardinality(RowsOf(db, LastKey)) = 1

\* C8: ensure_exists on a live connection and a table that is absent or
\* compatible raises nothing, and a second ensure_exists with the same key
\* right after a completed one raises nothing (unless the connection is lost)
\* and leaves the table and its rows as they were.
C8_EnsureExistsIdempotent ==
    /\ (/\ last.op = "ensure_exists"
        /\ last.before.status = "open"
        /\ last.fault = "none"
        /\ ~last.before.table \/ ~Incompatible(db))
       => last.exc = "none"
    /\ (last.op = "ensure_exists" /\ last.before.again /\ last.fault = "none")
       => (last.exc = "none" /\ last.unchanged)

C8_Witness ==
    /\ Completed("ensure_exists")
    /\ last.before.again
    /\ last.unchanged
    /\ Len(db.rows) = 1

\* C9: after get_connection returns without error the held handle is open;
\* a held handle whose probe failed was closed and dropped for a newly
\* opened one, a held handle whose probe succeeded is kept, and with no
\* handle held one is opened.
C9_ConnectionLive ==
    Completed("get_connection") =>
        /\ conn # 0
        /\ handles[conn] = "open"
        /\ (last.before.conn # 0 /\ (last.before.status # "open" \/ last.fault = "probe"))
           => /\ conn # last.before.conn
              /\ handles[last.before.conn] = "free"
              /\ last.trace = <<"probe", "close", "connect">>
        /\ (last.before.conn # 0 /\ last.before.status = "open" /\ last.fault = "none")
           => (conn = last.before.conn /\ last.trace = <<"probe">>)
        /\ last.before.conn = 0 => last.trace = <<"connect">>

C9_Witness ==
    /\ Completed("get_connection")
    /\ last.before.status = "broken"
    /\ conn # last.before.conn
    /\ handles[conn] = "open"

EntryCall(event) ==
    RepoCall("entry", <<event.id, event.first_name, event.last_name, event.username>>)

\* C10: registr with no user record makes exactly one collaborator call, the
\* entry call with the incoming id, first_name, last_name and username; it
\* raises RegistrationError when entry returns a falsy value and completes
\* without error otherwise.
C10_NoUserEntersOnce ==
    (reg.op = "registr" /\ reg.user = NoneV) =>
        /\ reg.calls = <<EntryCall(reg.event)>>
        /\ reg.entry \in {NoneV, PyInt(0)} => reg.exc = "RegistrationError"
        /\ reg.entry \notin {NoneV, PyInt(0)} => reg.exc = "none"

C10_Witness ==
    /\ reg.op = "registr"
    /\ reg.user = NoneV
    /\ reg.entry = PyInt(0)
    /\ reg.exc = "RegistrationError"
    /\ Len(reg.calls) = 1

\* the incoming value is another value than the stored one
Differs(stored, incoming) == stored.v # incoming.v

UpdateCalls(user, event) ==
    (IF Differs(user.first_name, event.first_name)
     THEN <<RepoCall("update_first_name", <<event.id, event.first_name>>)>> ELSE <<>>)
    \o (IF Differs(user.last_name, event.last_name)
        THEN <<RepoCall("update_last_name", <<event.id, event.last_name>>)>> ELSE <<>>)
    \o (IF Differs(user.username, event.username)
        THEN <<RepoCall("update_username", <<event.id, event.username>>)>> ELSE <<>>)

\* C11: registr with an existing user record makes one update call, carrying
\* the incoming value, for exactly those of first_name, last_name, username
\* whose incoming value differs from the stored value, makes no entry call and
\* raises nothing; an unchanged profile causes no call at all.
C11_UpdatesOnlyDifferingFields ==
    (reg.op = "registr" /\ reg.user # NoneV) =>
        /\ reg.calls = UpdateCalls(reg.user, reg.event)
        /\ reg.exc = "none"

\* the table has the three columns key TEXT, state TEXT, data JSON and no
\* other column
ExactStructure(d) ==
    /\ d.exists
    /\ Columns(d) = {"key", "state", "data"}
    /\ ~Incompatible(d)

\* C12: whenever an accessor completes without error the table's columns and
\* types are exactly {key: TEXT, state: TEXT, data: JSON}, and an accessor
\* called (connection not lost) on an existing table of any other structure,
\* additional columns included, fails with StructureError.
C12_ExactStructureOrStructureError ==
    /\ (last.op \in Accessors /\ last.exc = "none") => ExactStructure(db)
    /\ (/\ last.op \in Accessors
        /\ last.fault = "none"
        /\ last.before.table
        /\ ~ExactStructure(db))
       => last.exc = "StructureError"

\* the place of each step in an accessor call
StepRank(step) ==
    CASE step = "probe" -> 1
      [] step = "close" -> 2
      [] step = "connect" -> 3
      [] step = "build" -> 4
      [] step = "schema" -> 5
      [] step = "create" -> 6
      [] step = "rowcheck" -> 7
      [] step = "insert" -> 8
      [] step = "query" -> 9

StepsOf(trace) == {trace[i] : i \in 1..Len(trace)}

\* C13: in every accessor call the steps run in the order connection (probe,
\* close, connect), key build, schema (catalog query, create), row (row
\* check, insert), and last the read or write; the read or write is issued
\* only after the catalog query and the row check of the same call, with the
\* table created when it was absent and the row inserted when there was none,
\* and a completed call has issued it.
C13_AccessorStepOrder ==
    last.op \in Accessors =>
        /\ \A i, j \in 1..Len(last.trace) :
               i < j => StepRank(last.trace[i]) < StepRank(last.trace[j])
        /\ "build" \in StepsOf(last.trace)
           => (StepsOf(last.trace) \cap {"probe", "connect"} # {}
               /\ last.trace[Len(last.trace)] \notin {"probe", "close", "connect"})
        /\ "schema" \in StepsOf(last.trace) => "build" \in StepsOf(last.trace)
        /\ "rowcheck" \in StepsOf(last.trace) => "schema" \in StepsOf(last.trace)
        /\ "query" \in StepsOf(last.trace)
           => /\ {"schema", "rowcheck"} \subseteq StepsOf(last.trace)
              /\ "create" \in StepsOf(last.trace) <=> ~last.before.table
              /\ "insert" \in StepsOf(last.trace) <=> last.before.rows = 0
        /\ last.exc = "none" => last.trace[Len(last.trace)] = "query"

C13_Witness ==
    /\ Completed("set_state")
    /\ last.trace = <<"probe", "close", "connect", "build", "schema", "create",
                      "rowcheck", "insert", "query">>

KeysPresent(d) == {d.rows[i].key : i \in 1..Len(d.rows)}

\* C14: across every accessor call an existing table stays the table it was
\* (it is created only by a call that found none), no two rows share a key,
\* every key present stays present, and the only key a call can add is the
\* one it was called with.
C14_RowsOnlyGrow ==
    [][/\ db.exists => (db'.exists /\ db'.cols = db.cols)
       /\ (~db.exists /\ db'.exists)
          => ("create" \in StepsOf(last'.trace) /\ ExactStructure(db'))
       /\ \A i, j \in 1..Len(db'.rows) : db'.rows[i].key = db'.rows[j].key => i = j
       /\ KeysPresent(db) \subseteq KeysPresent(db')
       /\ KeysPresent(db') \ KeysPresent(db) \subseteq {build(last'.key)}
       /\ Len(db'.rows) = Cardinality(KeysPresent(db'))]_vars

C14_Witness ==
    /\ last.op \in Accessors
    /\ last.exc = "none"
    /\ last.before.table
    /\ last.before.rows = 0
    /\ KeysPresent(db) = {build(k) : k \in Keys}
    /\ Len(db.rows) = 2

CountStep(trace, step) == Cardinality({i \in 1..Len(trace) : trace[i] = step})

\* the call found a held handle whose probe raised a driver error
ProbeFailed ==
    /\ last.before.conn # 0
    /\ last.before.status # "open" \/ last.fault = "probe"

\* C15: in an accessor call a driver error at the catalog query, the create,
\* the row check, the insert or the accessor's own statement reaches the
\* caller, with that round trip the last one of the call; a probe error does
\* not reach the caller by itself but is followed by exactly one connect
\* attempt, whose failure reaches the caller.
C15_DriverErrorsHandledOnlyInProbe ==
    last.op \in Accessors =>
        /\ last.fault \in {"schema", "create", "rowcheck", "insert", "query"}
           => /\ last.exc = "DriverError"
              /\ last.trace[Len(last.trace)] = last.fault
              /\ CountStep(last.trace, last.fault) = 1
              /\ CountStep(last.trace, "connect") <= 1
              /\ CountStep(last.trace, "probe") <= 1
        /\ ProbeFailed
           => /\ last.trace[Len(last.trace)] # "probe"
              /\ CountStep(last.trace, "connect") = 1
              /\ last.fault = "connect" <=> last.exc = "ConnectError"

\* C16: a step in which an accessor fails with StructureError leaves the
\* database as it was: the table, its columns and every row, of the accessed
\* key and of any other.
C16_StructureErrorChangesNothing ==
    [][(last'.op \in Accessors /\ last'.exc = "StructureError") => db' = db]_vars

C16_Witness ==
    /\ last.op = "set_data"
    /\ last.exc = "StructureError"
    /\ last.trace[Len(last.trace)] = "schema"
    /\ db.exists
    /\ db.cols["data"] = TypeJsonb
    /\ db.rows = <<>>

EmptyLabel(v) == v.t = "None" \/ (v.t = "str" /\ Len(v.s) = 0)

\* C17: a completed get_state(k) returns None exactly when k had no row or
\* the stored label is NULL or '', and the stored label otherwise; when the
\* last completed set_state(k, s) had s None or '', it returns None.
C17_GetStateNoneIffEmpty ==
    Completed("get_state") =>
        /\ last.ret = NoneV
           <=> (last.before.rows = 0 \/ \A v \in StateCol(db, LastKey) : EmptyLabel(v))
        /\ last.ret # NoneV => StateCol(db, LastKey) = {last.ret}
        /\ (setState[last.key] # Unset /\ EmptyLabel(LabelOf(setState[last.key])))
           => last.ret = NoneV

C17_Witness ==
    /\ Completed("get_state")
    /\ setState[last.key] = NoneV
    /\ last.before.rows = 1
    /\ StateCol(db, LastKey) = {NoneV}
    /\ last.ret = NoneV
    /\ setData[last.key] # Unset

\* C18: with one store per worker and the workers' calls interleaved at the
\* database round trips, no accessor call ends with an error, and the table
\* holds exactly one row for the key of every completed call and never two
\* rows under one key.
C18_StorePerWorkerSuffices ==
    /\ \A w \in Workers : workers[w].exc = "none"
    /\ \A k \in Keys : Cardinality(RowsOf(db, build(k))) <= 1
    /\ \A w \in Workers :
          (workers[w].pc = "idle" /\ workers[w].op # "init" /\ workers[w].exc = "none")
          => Cardinality(RowsOf(db, build(workers[w].key))) = 1

\* what get_state and get_data read for a built key: the stored label and
\* document, none when the key has no row
Stored(d, k) == [state |-> StateCol(d, k), data |-> DataCol(d, k)]

\* C19: a call on key k leaves the row of every key k' with another built
\* string as it was, present or absent, so what get_state(k') and
\* get_data(k') read is the same before and after the call.
C19_KeysIndependent ==
    [][\A k \in Keys :
          build(k) # build(last'.key) => Stored(db', build(k)) = Stored(db, build(k))]_vars

C19_Witness ==
    /\ Completed("set_data")
    /\ last.arg = PyDict(<<>>)
    /\ \E k \in Keys :
          /\ build(k) # LastKey
          /\ StateCol(db, build(k)) = {PyStr(<<"A">>)}
          /\ DataCol(db, build(k)) = {JObject(<<Member(<<"a">>, JNumber(1))>>)}

\* C20: a completed close() leaves the handle held and closed; the next
\* accessor call, on a table that is absent or compatible and with no
\* connection lost during the call, has its probe fail, closes and drops the
\* handle, opens a new one and completes, and get_state and get_data return
\* the label and mapping stored before close().
C20_RecoversAfterClose ==
    /\ Completed("close")
       => (conn # 0 /\ conn = last.before.conn /\ handles[conn] = "closed")
    /\ (/\ last.op \in Accessors
        /\ last.before.status = "closed"
        /\ last.fault = "none"
        /\ ~last.before.table \/ ~Incompatible(db))
       => /\ last.exc = "none"
          /\ SubSeq(last.trace, 1, 4) = <<"probe", "close", "connect", "build">>
          /\ conn # last.before.conn
          /\ handles[conn] = "open"
          /\ handles[last.before.conn] = "free"
          /\ (last.op = "get_state" /\ setState[last.key] # Unset)
             => last.ret = LabelOf(setState[last.key])
          /\ (last.op = "get_data" /\ setData[last.key] # Unset)
             => DictEq(last.ret, setData[last.key])

C20_Witness ==
    /\ Completed("get_data")
    /\ last.before.status = "closed"
    /\ last.trace = <<"probe", "close", "connect", "build", "schema", "rowcheck", "query">>
    /\ last.ret = PyDict(<<Item(PyStr(<<"a">>), PyInt(1))>>)
    /\ setState[last.key] = PyStr(<<"A">>)

====
